---- MODULE Spec2Model ----
(***************************************************************************)
(* Theme management of the Evo SDK website (src/public/theme.js): the      *)
(* persisted preference, the resolution of the effective theme against the *)
(* OS preference, the document attributes, the theme selector widgets and  *)
(* the OS preference change listener.                                      *)
(***************************************************************************)
EXTENDS Integers, Sequences, FiniteSets

\* ---------------------------------------------------------------- bounds
MaxWidgets == 2

\* ------------------------------------------------------------- JS values
Null == "<null>"
Undefined == "<undefined>"
Thrown == "<exception>"
Bogus == "blue"

LIGHT == "light"
DARK == "dark"
SYSTEM == "system"
THEMES == {LIGHT, DARK, SYSTEM}

Falsy(v) == v \in {Null, Undefined, ""}

Or(a, b) == IF Falsy(a) THEN b ELSE a

BoolString(b) == IF b THEN "true" ELSE "false"

\* ------------------------------------------------------------- variables
VARIABLES
    storage,        \* behaviour of localStorage: "ok", "throwWrite", "throwAll"
    stored,         \* the item under THEME_KEY: Null when there is none
    hasMatchMedia,  \* window.matchMedia exists
    systemDark,     \* matchMedia('(prefers-color-scheme: dark)').matches
    metaExists,     \* the page has a <meta name="theme-color">
    metaContent,    \* its content attribute
    dataTheme,      \* data-theme of the document root, Null while unset
    mountExists,    \* the page has the element with id themeToggle
    readyState,     \* document.readyState when the script runs
    pc,             \* position of the script: "script", "iife", "loading", "run"
    widgets,        \* the theme selectors in the document, in creation order
    docListeners,   \* click listeners on document: the widget each one closes
    mediaListeners, \* change listeners on the media query: has a callback?
    chosen,         \* the most recent selection made by the user, Null if none
    raised,         \* an exception escaped from an operation
    last            \* the operation that ran last, its argument and result

vars == <<storage, stored, hasMatchMedia, systemDark, metaExists, metaContent,
          dataTheme, mountExists, readyState, pc, widgets, docListeners,
          mediaListeners, chosen, raised, last>>

env == <<storage, hasMatchMedia, metaExists, mountExists>>

\* --------------------------------------------------------------- helpers
META_DARK == "#0f3460"
META_LIGHT == "#2c3e50"

ContainerIds == {"themeToggle", "missing"}

getElementById(id) == id = "themeToggle" /\ mountExists

getSystemTheme(matches) ==
    IF hasMatchMedia /\ matches THEN DARK ELSE LIGHT

localStorage_getItem ==
    IF storage = "throwAll" THEN Thrown ELSE stored

localStorage_setItem(value) ==
    IF storage \in {"throwWrite", "throwAll"} THEN Thrown ELSE value

\* getStoredTheme without its try/catch
getStoredTheme_nocatch == localStorage_getItem

getStoredTheme ==
    IF localStorage_getItem = Thrown THEN Null ELSE localStorage_getItem

\* storeTheme without its try/catch
storeTheme_nocatch(theme) == localStorage_setItem(theme)

\* storeTheme that never writes
storeTheme_nowrite(theme) == stored

\* storeTheme that removes the key when the choice is 'system'
storeTheme_remove(theme) ==
    IF localStorage_setItem(theme) = Thrown THEN stored
    ELSE IF theme = SYSTEM THEN Null ELSE theme

storeTheme(theme) ==
    IF localStorage_setItem(theme) = Thrown THEN stored
    ELSE localStorage_setItem(theme)

\* getEffectiveTheme without the test for an absent preference
getEffectiveTheme_strict(preference, matches) ==
    IF preference = SYSTEM THEN getSystemTheme(matches) ELSE preference

getEffectiveTheme(preference, matches) ==
    IF preference = SYSTEM \/ Falsy(preference)
    THEN getSystemTheme(matches)
    ELSE preference

\* applyTheme that picks the meta colour from the data-theme it finds
applyTheme_stalemeta(theme, matches, doc) ==
    [dataTheme   |-> getEffectiveTheme(theme, matches),
     metaContent |-> IF metaExists
                     THEN (IF doc.dataTheme = DARK THEN META_DARK
                           ELSE META_LIGHT)
                     ELSE doc.metaContent]

applyTheme(theme, matches, doc) ==
    LET effectiveTheme == getEffectiveTheme(theme, matches)
    IN  [dataTheme   |-> effectiveTheme,
         metaContent |-> IF metaExists
                         THEN (IF effectiveTheme = DARK THEN META_DARK
                               ELSE META_LIGHT)
                         ELSE doc.metaContent]

getIconForTheme(theme) ==
    CASE theme = LIGHT -> "sun"
      [] theme = DARK  -> "moon"
      [] OTHER         -> "monitor"

getLabelForTheme(theme) ==
    CASE theme = LIGHT -> "Light"
      [] theme = DARK  -> "Dark"
      [] OTHER         -> "System"

doc == [dataTheme |-> dataTheme, metaContent |-> metaContent]

Op(name, arg, ret) == [op |-> name, arg |-> arg, ret |-> ret]

\* ------------------------------------------------------------------ Init
\* storage "ok" holds nothing, "" or any string; "throwWrite" (quota
\* exceeded) holds a preference that can no longer be overwritten;
\* "throwAll" (storage disabled) throws on every access
Page ==
    /\ storage \in {"ok", "throwWrite", "throwAll"}
    /\ stored \in IF storage = "throwAll" THEN {Null}
                  ELSE IF storage = "throwWrite" THEN {LIGHT}
                  ELSE {Null, "", LIGHT, DARK, SYSTEM, Bogus}
    /\ systemDark \in BOOLEAN
    /\ metaExists \in BOOLEAN
    /\ metaContent = (IF metaExists THEN META_LIGHT ELSE Null)
    /\ dataTheme = Null
    /\ mountExists \in BOOLEAN
    /\ readyState \in {"loading", "interactive"}
    /\ pc = "script"
    /\ widgets = <<>>
    /\ docListeners = <<>>
    /\ mediaListeners = <<>>
    /\ chosen = Null
    /\ raised = FALSE
    /\ last = Op("none", Null, Undefined)

\* a browser that has window.matchMedia
Init ==
    /\ hasMatchMedia = TRUE
    /\ Page

\* any browser: without window.matchMedia the query is never evaluated
InitResolve ==
    /\ hasMatchMedia \in BOOLEAN
    /\ Page

\* --------------------------------------------------------------- actions
\* initTheme that reads the preference and does not apply it
initTheme_noapply ==
    [dataTheme |-> dataTheme, metaContent |-> metaContent,
     ret |-> Or(getStoredTheme, SYSTEM)]

\* line 248: initTheme() when the script is evaluated
initTheme ==
    LET g == getStoredTheme
        storedTheme == Or(g, SYSTEM)
        d == applyTheme(storedTheme, systemDark, doc)
    IN  IF g = Thrown
        THEN [dataTheme |-> dataTheme, metaContent |-> metaContent,
              ret |-> Thrown]
        ELSE [dataTheme |-> d.dataTheme, metaContent |-> d.metaContent,
              ret |-> storedTheme]

RunInitTheme ==
    /\ pc = "script"
    /\ dataTheme' = initTheme.dataTheme
    /\ metaContent' = initTheme.metaContent
    /\ raised' = (raised \/ initTheme.ret = Thrown)
    /\ last' = Op("initTheme", Null, initTheme.ret)
    /\ pc' = "iife"
    /\ UNCHANGED <<env, readyState, stored, systemDark, widgets, docListeners,
                   mediaListeners, chosen>>

\* lines 134-155: the markup of a new selector
NewSelector(currentTheme) ==
    [icon         |-> getIconForTheme(currentTheme),
     label        |-> getLabelForTheme(currentTheme),
     active       |-> {o \in THEMES : currentTheme = o},
     open         |-> FALSE,
     ariaExpanded |-> "false"]

\* createThemeSelector without the test for the container
createThemeSelector_noguard(containerId) ==
    LET currentTheme == Or(getStoredTheme, SYSTEM)
    IN  [widgets      |-> Append(widgets, NewSelector(currentTheme)),
         docListeners |-> Append(docListeners, Len(widgets) + 1),
         ret          |-> "selector"]

\* lines 128-195
createThemeSelector(containerId) ==
    IF ~getElementById(containerId)
    THEN [widgets |-> widgets, docListeners |-> docListeners,
          ret |-> Undefined]
    ELSE IF getStoredTheme = Thrown
    THEN [widgets |-> widgets, docListeners |-> docListeners,
          ret |-> Thrown]
    ELSE LET currentTheme == Or(getStoredTheme, SYSTEM)
         IN  [widgets      |-> Append(widgets, NewSelector(currentTheme)),
              docListeners |-> Append(docListeners, Len(widgets) + 1),
              ret          |-> "selector"]

\* lines 104-123: registration
setupSystemThemeListener(callback) ==
    IF hasMatchMedia THEN Append(mediaListeners, callback)
    ELSE mediaListeners

\* the change handler without the test of the stored preference
handler_always(callback, matches, d) ==
    LET a == applyTheme(SYSTEM, matches, d)
    IN  [dataTheme |-> a.dataTheme, metaContent |-> a.metaContent,
         called |-> callback, threw |-> FALSE]

\* lines 107-113: the change handler of one registration
handler(callback, matches, d) ==
    LET storedTheme == getStoredTheme
        a == applyTheme(SYSTEM, matches, d)
    IN  IF storedTheme = Thrown
        THEN [dataTheme |-> d.dataTheme, metaContent |-> d.metaContent,
              called |-> FALSE, threw |-> TRUE]
        ELSE IF storedTheme = SYSTEM \/ Falsy(storedTheme)
        THEN [dataTheme |-> a.dataTheme, metaContent |-> a.metaContent,
              called |-> callback, threw |-> FALSE]
        ELSE [dataTheme |-> d.dataTheme, metaContent |-> d.metaContent,
              called |-> FALSE, threw |-> FALSE]

\* the media query dispatches 'change' to its listeners in registration order
RECURSIVE dispatchChange(_, _, _)
dispatchChange(ls, matches, d) ==
    IF ls = <<>>
    THEN [dataTheme |-> d.dataTheme, metaContent |-> d.metaContent,
          called |-> FALSE, threw |-> FALSE]
    ELSE LET h == handler(Head(ls), matches, d)
             r == dispatchChange(Tail(ls), matches, h)
         IN  [dataTheme |-> r.dataTheme, metaContent |-> r.metaContent,
              called |-> (h.called \/ r.called),
              threw |-> (h.threw \/ r.threw)]

\* setTheme that leaves the button of the selector as it was
setTheme_nobutton(theme, selectorElement) ==
    LET a == applyTheme(theme, systemDark, doc)
    IN  [stored |-> storeTheme(theme), dataTheme |-> a.dataTheme,
         metaContent |-> a.metaContent,
         widgets |->
           IF selectorElement = 0 THEN widgets
           ELSE [widgets EXCEPT ![selectorElement] =
                   [@ EXCEPT !.active = {o \in THEMES : o = theme}]],
         ret |-> Undefined]

\* lines 200-217
setTheme(theme, selectorElement) ==
    LET s == storeTheme(theme)
        a == applyTheme(theme, systemDark, doc)
    IN  IF s = Thrown
        THEN [stored |-> stored, dataTheme |-> dataTheme,
              metaContent |-> metaContent, widgets |-> widgets,
              ret |-> Thrown]
        ELSE [stored |-> s, dataTheme |-> a.dataTheme,
              metaContent |-> a.metaContent,
              widgets |->
                IF selectorElement = 0 THEN widgets
                ELSE [widgets EXCEPT ![selectorElement] =
                        [@ EXCEPT !.icon = getIconForTheme(theme),
                                  !.label = getLabelForTheme(theme),
                                  !.active = {o \in THEMES : o = theme}]],
              ret |-> Undefined]

\* the button listener with classList.add in place of classList.toggle
btnClick_add(sel) ==
    [sel EXCEPT !.open = TRUE,
                !.ariaExpanded = BoolString(~sel.open)]

\* the button listener that writes isOpen, not its negation, to aria-expanded
btnClick_staleAria(sel) ==
    [sel EXCEPT !.open = ~sel.open,
                !.ariaExpanded = BoolString(sel.open)]

\* lines 164-169: click on the button of a selector
btnClick(sel) ==
    LET isOpen == sel.open
    IN  [sel EXCEPT !.open = ~sel.open,
                    !.ariaExpanded = BoolString(~isOpen)]

\* lines 175-176, 182-183, 189-190: the dropdown is closed
closeDropdown(sel) ==
    [sel EXCEPT !.open = FALSE, !.ariaExpanded = "false"]

\* lines 181-184: a click that reaches document runs every listener on it
documentClick(ws) ==
    [i \in 1..Len(ws) |->
        IF \E k \in 1..Len(docListeners) : docListeners[k] = i
        THEN closeDropdown(ws[i]) ELSE ws[i]]

\* lines 172-177: click on an option of a selector
optionClick(w, theme) ==
    LET s == setTheme(theme, w)
    IN  IF s.ret = Thrown THEN s
        ELSE [s EXCEPT !.widgets[w] = closeDropdown(@)]

\* lines 187-192: keydown; the listener is on the button
btnKeydown(sel, key) ==
    IF key = "Escape" THEN closeDropdown(sel) ELSE sel

\* lines 267-273
initThemeUI ==
    IF getElementById("themeToggle")
    THEN LET c == createThemeSelector("themeToggle")
         IN  IF c.ret = Thrown
             THEN [widgets |-> widgets, docListeners |-> docListeners,
                   mediaListeners |-> mediaListeners, ret |-> Thrown]
             ELSE [widgets |-> c.widgets, docListeners |-> c.docListeners,
                   mediaListeners |-> setupSystemThemeListener(FALSE),
                   ret |-> Undefined]
    ELSE [widgets |-> widgets, docListeners |-> docListeners,
          mediaListeners |-> mediaListeners, ret |-> Undefined]

RunInitThemeUI ==
    /\ widgets' = initThemeUI.widgets
    /\ docListeners' = initThemeUI.docListeners
    /\ mediaListeners' = initThemeUI.mediaListeners
    /\ raised' = (raised \/ initThemeUI.ret = Thrown)
    /\ last' = Op("initThemeUI", Null, initThemeUI.ret)
    /\ pc' = "run"
    /\ readyState' = "interactive"
    /\ UNCHANGED <<env, stored, systemDark, metaContent, dataTheme, chosen>>

\* lines 275-279: the script finds the document already parsed
AutoInitReady ==
    /\ pc = "iife"
    /\ readyState # "loading"
    /\ RunInitThemeUI

\* lines 275-276: the script finds the document still loading
AutoInitDeferred ==
    /\ pc = "iife"
    /\ readyState = "loading"
    /\ pc' = "loading"
    /\ last' = Op("addEventListener", Null, Undefined)
    /\ UNCHANGED <<env, readyState, stored, systemDark, metaContent, dataTheme, widgets,
                   docListeners, mediaListeners, chosen, raised>>

\* line 276: DOMContentLoaded fires
DOMContentLoaded ==
    /\ pc = "loading"
    /\ RunInitThemeUI

\* the OS preference flips and the media query dispatches 'change'
SystemThemeChange ==
    /\ pc \in {"loading", "run"}
    /\ hasMatchMedia
    /\ systemDark' = ~systemDark
    /\ LET r == dispatchChange(mediaListeners, systemDark', doc)
       IN  /\ dataTheme' = r.dataTheme
           /\ metaContent' = r.metaContent
           /\ raised' = (raised \/ r.threw)
           /\ last' = Op("systemThemeChange", Null,
                         IF r.called THEN SYSTEM ELSE Undefined)
    /\ UNCHANGED <<env, readyState, stored, pc, widgets, docListeners, mediaListeners,
                   chosen>>

\* the user clicks the button of selector w (stopPropagation: document's
\* listeners do not run)
ButtonClick(w) ==
    /\ pc = "run"
    /\ w \in 1..Len(widgets)
    /\ widgets' = [widgets EXCEPT ![w] = btnClick(@)]
    /\ last' = Op("buttonClick", Null, Undefined)
    /\ UNCHANGED <<env, readyState, stored, systemDark, metaContent, dataTheme, pc,
                   docListeners, mediaListeners, chosen, raised>>

\* the user clicks option t of selector w; the click bubbles to document
OptionClick(w, t) ==
    /\ pc = "run"
    /\ w \in 1..Len(widgets)
    /\ LET s == optionClick(w, t)
       IN  /\ stored' = s.stored
           /\ dataTheme' = s.dataTheme
           /\ metaContent' = s.metaContent
           /\ widgets' = documentClick(s.widgets)
           /\ raised' = (raised \/ s.ret = Thrown)
    /\ chosen' = t
    /\ last' = Op("optionClick", Null, Undefined)
    /\ UNCHANGED <<env, readyState, systemDark, pc, docListeners, mediaListeners>>

\* the user clicks somewhere that is no button and no option of a selector
OutsideClick ==
    /\ pc = "run"
    /\ widgets' = documentClick(widgets)
    /\ last' = Op("outsideClick", Null, Undefined)
    /\ UNCHANGED <<env, readyState, stored, systemDark, metaContent, dataTheme, pc,
                   docListeners, mediaListeners, chosen, raised>>

\* a key goes down while an element of selector w has focus: its button
\* ("btn") or one of its options
KeyDown(w, focus, key) ==
    /\ pc = "run"
    /\ w \in 1..Len(widgets)
    /\ widgets' = [widgets EXCEPT ![w] =
                     IF focus = "btn" THEN btnKeydown(@, key) ELSE @]
    /\ last' = Op("keydown", key, Undefined)
    /\ UNCHANGED <<env, readyState, stored, systemDark, metaContent, dataTheme, pc,
                   docListeners, mediaListeners, chosen, raised>>

\* ------------------------------------- window.ThemeManager, lines 252-262
ApiSetTheme(t, h) ==
    /\ pc = "run"
    /\ h \in 0..Len(widgets)
    /\ LET s == setTheme(t, h)
       IN  /\ stored' = s.stored
           /\ dataTheme' = s.dataTheme
           /\ metaContent' = s.metaContent
           /\ widgets' = s.widgets
           /\ raised' = (raised \/ s.ret = Thrown)
           /\ last' = Op("setTheme", Null, s.ret)
    /\ chosen' = t
    /\ UNCHANGED <<env, readyState, systemDark, pc, docListeners, mediaListeners>>

ApiCreateThemeSelector(id) ==
    /\ pc = "run"
    /\ Len(widgets) < MaxWidgets
    /\ LET c == createThemeSelector(id)
       IN  /\ widgets' = c.widgets
           /\ docListeners' = c.docListeners
           /\ raised' = (raised \/ c.ret = Thrown)
           /\ last' = Op("createThemeSelector", Null, c.ret)
    /\ UNCHANGED <<env, readyState, stored, systemDark, metaContent, dataTheme, pc,
                   mediaListeners, chosen>>

ApiGetStoredTheme ==
    /\ pc = "run"
    /\ raised' = (raised \/ getStoredTheme = Thrown)
    /\ last' = Op("getStoredTheme", Null, getStoredTheme)
    /\ UNCHANGED <<env, readyState, stored, systemDark, metaContent, dataTheme, pc,
                   widgets, docListeners, mediaListeners, chosen>>

ApiGetEffectiveTheme(preference) ==
    /\ pc = "run"
    /\ last' = Op("getEffectiveTheme", preference,
                  getEffectiveTheme(preference, systemDark))
    /\ UNCHANGED <<env, readyState, stored, systemDark, metaContent, dataTheme, pc,
                   widgets, docListeners, mediaListeners, chosen, raised>>

ApiApplyTheme(theme) ==
    /\ pc = "run"
    /\ LET a == applyTheme(theme, systemDark, doc)
       IN  /\ dataTheme' = a.dataTheme
           /\ metaContent' = a.metaContent
    /\ last' = Op("applyTheme", theme, Undefined)
    /\ UNCHANGED <<env, readyState, stored, systemDark, pc, widgets, docListeners,
                   mediaListeners, chosen, raised>>

Next ==
    \/ RunInitTheme
    \/ AutoInitReady
    \/ AutoInitDeferred
    \/ DOMContentLoaded
    \/ SystemThemeChange
    \/ \E w \in 1..MaxWidgets : ButtonClick(w)
    \/ \E w \in 1..MaxWidgets, t \in THEMES : OptionClick(w, t)
    \/ OutsideClick
    \/ \E w \in 1..MaxWidgets, f \in {"btn", "option"},
          k \in {"Escape", "Tab"} : KeyDown(w, f, k)
    \/ \E t \in THEMES, h \in 0..MaxWidgets : ApiSetTheme(t, h)
    \/ \E id \in ContainerIds : ApiCreateThemeSelector(id)
    \/ ApiGetStoredTheme

Spec == Init /\ [][Next]_vars

\* the page load with the calls of the pure operations of window.ThemeManager
NextResolve ==
    \/ RunInitTheme
    \/ AutoInitReady
    \/ AutoInitDeferred
    \/ DOMContentLoaded
    \/ SystemThemeChange
    \/ \E p \in THEMES \cup {Null, "", Bogus} : ApiGetEffectiveTheme(p)
    \/ \E t \in THEMES \cup {Null, ""} : ApiApplyTheme(t)

SpecResolve == InitResolve /\ [][NextResolve]_vars

\* ======================================================== the properties
\* the reference resolver of the specification, section 4.1
SystemValue(matches) == IF hasMatchMedia /\ matches THEN "dark" ELSE "light"

Resolve(preference, matches) ==
    IF preference \in {"light", "dark"} THEN preference
    ELSE SystemValue(matches)

LabelOf(preference) ==
    CASE preference = "light" -> "Light"
      [] preference = "dark"  -> "Dark"
      [] OTHER                -> "System"

IconOf(preference) ==
    CASE preference = "light" -> "sun"
      [] preference = "dark"  -> "moon"
      [] OTHER                -> "monitor"

\* C1: getEffectiveTheme returns the preference itself for light and dark,
\* and the system value for 'system', null and the empty string.
C1_ResolverAgrees ==
    last.op = "getEffectiveTheme" =>
        /\ last.arg \in {"light", "dark"} => last.ret = last.arg
        /\ last.arg \in {"system", Null, ""} =>
               last.ret = (IF hasMatchMedia /\ systemDark THEN "dark"
                           ELSE "light")

C1_Witness ==
    /\ last.op = "getEffectiveTheme"
    /\ last.arg = Null
    /\ hasMatchMedia /\ systemDark
    /\ last.ret = "dark"

\* C2: after initTheme at page load with a stored string that is none of
\* light, dark, system, data-theme is the current system theme.
C2_CorruptedIsSystem ==
    getStoredTheme \notin {Null, LIGHT, DARK, SYSTEM} =>
        /\ last.op = "initTheme" => dataTheme = SystemValue(systemDark)
        /\ last.op = "initThemeUI" => dataTheme \in {"light", "dark"}

\* C3: a click on option t of selector w stores t (storage available), sets
\* data-theme to resolve(t, system), closes the dropdown of w, shows the
\* label of t on its button and marks t alone active.
C3_OptionClickEffect ==
    [][last'.op = "optionClick" =>
         \A w \in 1..Len(widgets), t \in {chosen'} :
            OptionClick(w, t) =>
               /\ storage = "ok" => stored' = t
               /\ dataTheme' = Resolve(t, systemDark')
               /\ ~widgets'[w].open
               /\ widgets'[w].label = LabelOf(t)
               /\ widgets'[w].active = {t}]_vars

C3_Witness ==
    /\ last.op = "optionClick"
    /\ storage = "ok"
    /\ chosen = "system" /\ stored = "system"
    /\ systemDark /\ dataTheme = "dark"
    /\ \E w \in 1..Len(widgets) :
          /\ widgets[w].label = "System"
          /\ widgets[w].active = {"system"}
          /\ ~widgets[w].open

\* C4 as stated: once the most recent selection of the user is light or
\* dark, an OS preference change leaves data-theme, the meta theme-color and
\* the widgets unchanged, whatever the storage does.
C4_ChoiceIgnoresOS ==
    [][(chosen \in {LIGHT, DARK} /\ SystemThemeChange)
          => UNCHANGED <<dataTheme, metaContent, widgets>>]_vars

\* C4 amended: when the stored preference that getStoredTheme reads back is
\* light or dark, an OS preference change leaves data-theme, the meta
\* theme-color and the widgets unchanged.
C4_StoredChoiceIgnoresOS ==
    [][(getStoredTheme \in {LIGHT, DARK} /\ SystemThemeChange)
          => UNCHANGED <<dataTheme, metaContent, widgets>>]_vars

C4_Witness ==
    /\ last.op = "systemThemeChange"
    /\ mediaListeners # <<>>
    /\ chosen = DARK /\ getStoredTheme = DARK
    /\ ~systemDark
    /\ dataTheme = "dark"
    /\ metaExists /\ metaContent = META_DARK

\* C5: on a page that has loaded the script, after an OS preference change
\* with the stored preference 'system' or absent, data-theme is the new
\* system theme.
C5_SystemFollowed ==
    (pc = "run" /\ last.op = "systemThemeChange"
        /\ (getStoredTheme = SYSTEM \/ getStoredTheme = Null))
        => dataTheme = SystemValue(systemDark)

\* a selector shows the preference that getStoredTheme reads back: the label
\* and icon of it (System for none or an unrecognised one), and an option is
\* active exactly when its value is the stored preference (System for none)
Reflects(sel) ==
    /\ sel.label = LabelOf(getStoredTheme)
    /\ sel.icon = IconOf(getStoredTheme)
    /\ sel.active = {o \in {"light", "dark", "system"} :
                        o = (IF getStoredTheme \in {Null, ""} THEN "system"
                             ELSE getStoredTheme)}

\* C6 as stated, read with storage available: once the page has loaded,
\* every selector shows the stored preference, after any option clicks and
\* set-theme calls, with or without a handle.
C6_WidgetReflectsStored ==
    (pc = "run" /\ storage = "ok") =>
        \A w \in 1..Len(widgets) : Reflects(widgets[w])

\* C6 amended: with storage available, a selector shows the stored
\* preference right after its construction and right after an option click
\* on it or a set-theme call that passes its handle, and keeps showing it
\* over every step that is no selection made without its handle.
C6_ReflectsWhenHandlePassed ==
    [][storage = "ok" =>
         \A w \in 1..Len(widgets') :
            \/ w > Len(widgets)
            \/ /\ last'.op \in {"optionClick", "setTheme"}
               /\ OptionClick(w, chosen') \/ ApiSetTheme(chosen', w)
            \/ /\ Reflects(widgets[w])
               /\ ~(/\ last'.op \in {"optionClick", "setTheme"}
                    /\ \E h \in 0..Len(widgets) :
                          /\ h # w
                          /\ OptionClick(h, chosen') \/ ApiSetTheme(chosen', h))
            => Reflects(widgets[w])']_vars

C6_Witness ==
    /\ last.op = "setTheme"
    /\ storage = "ok"
    /\ chosen = "dark" /\ stored = "dark"
    /\ Len(widgets) = 2
    /\ Reflects(widgets[2])
    /\ ~Reflects(widgets[1])

\* C7: with storage available, getStoredTheme returns the theme of the most
\* recent set-theme, whatever toggles, outside clicks, key presses and OS
\* preference changes came in between.
C7_RoundTrip ==
    (storage = "ok" /\ chosen # Null /\ last.op = "getStoredTheme")
        => last.ret = chosen

C7_Witness ==
    /\ storage = "ok"
    /\ last.op = "getStoredTheme"
    /\ chosen = "light" /\ last.ret = "light"
    /\ systemDark
    /\ \E w \in 1..Len(widgets) : widgets[w].open

\* C8: with storage that throws, no operation raises; getStoredTheme returns
\* null when reads throw; setTheme returns normally; an option click still
\* applies the chosen theme, updates the label and closes the dropdown.
C8_ThrowingStorageTolerated ==
    [][storage # "ok" =>
         /\ ~raised'
         /\ (storage = "throwAll" /\ ApiGetStoredTheme) => last'.ret = Null
         /\ last'.op = "setTheme" =>
               \A t \in {chosen'}, h \in 0..Len(widgets) :
                  ApiSetTheme(t, h) =>
                     /\ last'.ret = Undefined
                     /\ dataTheme' = Resolve(t, systemDark')
         /\ last'.op = "optionClick" =>
               \A t \in {chosen'}, w \in 1..Len(widgets) :
                  OptionClick(w, t) =>
                     /\ dataTheme' = Resolve(t, systemDark')
                     /\ widgets'[w].label = LabelOf(t)
                     /\ ~widgets'[w].open]_vars

C8_Witness ==
    /\ storage = "throwAll"
    /\ last.op = "optionClick"
    /\ chosen = "dark" /\ dataTheme = "dark"
    /\ ~systemDark
    /\ ~raised
    /\ \E w \in 1..Len(widgets) :
          widgets[w].label = "Dark" /\ ~widgets[w].open

\* C9: page load with no stored preference, or with reads that throw:
\* initTheme applies the system theme, and initThemeUI builds, without
\* raising, a selector that is closed, labelled System, with System active.
C9_LoadWithoutPreference ==
    stored = Null =>
        /\ last.op = "initTheme" =>
              /\ dataTheme = SystemValue(systemDark)
              /\ ~raised
        /\ (last.op = "initThemeUI" /\ mountExists) =>
              /\ ~raised
              /\ Len(widgets) = 1
              /\ ~widgets[1].open
              /\ widgets[1].ariaExpanded = "false"
              /\ widgets[1].label = "System"
              /\ widgets[1].active = {"system"}

C9_Witness ==
    /\ storage = "throwAll"
    /\ last.op = "initThemeUI"
    /\ mountExists
    /\ systemDark /\ dataTheme = "dark"
    /\ Len(widgets) = 1 /\ widgets[1].label = "System"

\* C10: createThemeSelector for a container that does not exist returns
\* without raising and changes neither the widgets, the listeners, the
\* stored preference nor the document.
C10_MissingMountNoOp ==
    [][\A id \in ContainerIds :
         (ApiCreateThemeSelector(id) /\ ~getElementById(id)) =>
            /\ ~raised'
            /\ last'.ret = Undefined
            /\ UNCHANGED <<widgets, docListeners, mediaListeners, stored,
                           dataTheme, metaContent>>]_vars

C10_Witness ==
    /\ last.op = "createThemeSelector"
    /\ last.ret = Undefined
    /\ ~mountExists
    /\ widgets = <<>> /\ docListeners = <<>> /\ mediaListeners = <<>>
    /\ dataTheme # Null
    /\ ~raised

\* C11: whenever a selector exists in the document, data-theme has been set
\* on the document root, on both paths of the page load.
C11_ThemeBeforeWidget ==
    widgets # <<>> => dataTheme # Null

C11_Witness ==
    /\ last.op = "initThemeUI"
    /\ pc = "run"
    /\ Len(widgets) = 1
    /\ dataTheme = "dark"

\* C12: in a state that applyTheme(t) has produced, applying t again with
\* the same system theme yields the data-theme and meta content that are
\* already there.
C12_ApplyIdempotent ==
    last.op = "applyTheme" =>
        applyTheme(last.arg, systemDark, doc) =
            [dataTheme |-> dataTheme, metaContent |-> metaContent]

C12_Witness ==
    /\ last.op = "applyTheme"
    /\ last.arg = "dark"
    /\ hasMatchMedia /\ ~systemDark
    /\ dataTheme = "dark"
    /\ metaExists /\ metaContent = "#0f3460"

\* C13: a selector is closed when created; a click on its button turns a
\* closed dropdown open and an open one closed, and changes neither the
\* stored preference nor data-theme.
C13_ButtonToggles ==
    [][/\ \A w \in 1..Len(widgets') :
             w > Len(widgets) => ~widgets'[w].open
       /\ last'.op = "buttonClick" =>
             \A w \in 1..Len(widgets) :
                ButtonClick(w) =>
                   /\ widgets'[w].open = ~widgets[w].open
                   /\ UNCHANGED <<stored, dataTheme>>]_vars

C13_Witness ==
    /\ last.op = "buttonClick"
    /\ Len(widgets) = 1
    /\ ~widgets[1].open
    /\ stored = "dark" /\ dataTheme = "dark"

\* C14: a click outside a selector closes its dropdown, whether it was open
\* or closed: a click that is on no selector, and also a click on the button
\* of another selector of the page.
C14_OutsideClickCloses ==
    [][/\ OutsideClick => \A w \in 1..Len(widgets) : ~widgets'[w].open
       /\ last'.op = "buttonClick" =>
             \A w \in 1..Len(widgets), v \in 1..Len(widgets) :
                (v # w /\ ButtonClick(v)) => ~widgets'[w].open]_vars

\* C15: Escape pressed while an element of a selector has focus, its button
\* or one of its options, closes the dropdown and changes neither the
\* stored preference nor data-theme.
C15_EscapeCloses ==
    [][(last'.op = "keydown" /\ last'.arg = "Escape") =>
         \A w \in 1..Len(widgets), f \in {"btn", "option"} :
            KeyDown(w, f, "Escape") =>
               /\ ~widgets'[w].open
               /\ UNCHANGED <<stored, dataTheme>>]_vars

\* C16: the stored preference changes only in an option click or a
\* set-theme call, and once there is a stored value no step removes it.
C16_StoredOnlyByChoice ==
    [][/\ stored' # stored => last'.op \in {"optionClick", "setTheme"}
       /\ stored # Null => stored' # Null]_vars

C16_Witness ==
    /\ last.op = "systemThemeChange"
    /\ mediaListeners # <<>>
    /\ storage = "ok"
    /\ chosen = "system" /\ stored = "system"
    /\ \E w \in 1..Len(widgets) : widgets[w].open

\* C17: with a theme-color meta tag, once data-theme is set the content of
\* the tag is '#0f3460' exactly when data-theme is 'dark' and '#2c3e50'
\* exactly when it is 'light'; without the tag, data-theme is set all the
\* same and nothing raises.
C17_MetaKeyedByTheme ==
    pc # "script" =>
        /\ dataTheme # Null
        /\ ~raised
        /\ metaExists =>
              /\ metaContent = "#0f3460" <=> dataTheme = "dark"
              /\ metaContent = "#2c3e50" <=> dataTheme = "light"

\* C18: on a loaded page with the mount point, storage available and a
\* stored value that is absent or one of light, dark, system, data-theme is
\* resolve(stored preference, current system theme).
C18_ThemeIsResolvedPreference ==
    (pc = "run" /\ mountExists /\ storage = "ok"
        /\ stored \in {Null, "light", "dark", "system"})
        => dataTheme = Resolve(stored, systemDark)

\* C19: for every selector, aria-expanded of the button is 'true' exactly
\* when the dropdown carries the open class.
C19_AriaMatchesOpen ==
    \A w \in 1..Len(widgets) :
        widgets[w].ariaExpanded = "true" <=> widgets[w].open

C19_Witness ==
    /\ last.op = "buttonClick"
    /\ \E w \in 1..Len(widgets) :
          widgets[w].open /\ widgets[w].ariaExpanded = "true"
    /\ \E w \in 1..Len(widgets) :
          ~widgets[w].open /\ widgets[w].ariaExpanded = "false"

====
